---------------------------- MODULE Spec2Model ----------------------------
(***************************************************************************)
(* Model of src/app.py: the bond-portfolio dashboard.  One script run per  *)
(* user interaction (Streamlit reruns the script top to bottom), a         *)
(* process-wide memo of load_data's return value, and the table algebra    *)
(* of load_data (inner join on dates, diff, pct_change, dropna, sorting,   *)
(* outer column concatenation, column selection) and of the sidebar        *)
(* filter.                                                                 *)
(*                                                                         *)
(* Numbers are exact rationals <<n, d>> with d > 0; <<0, 0>> is NaN.       *)
(* A table is [index, columns, data]: row labels, column labels, and the   *)
(* rows as sequences of cells aligned with columns (column labels may      *)
(* repeat, as they do in Loadings).  Row labels are unique within a file   *)
(* and every cell of a file holds a number; prices are positive.           *)
(* view names the section branch a run entered; the charts drawn inside    *)
(* it are not modelled.                                                    *)
(***************************************************************************)
EXTENDS Integers, Sequences, FiniteSets, TLC

\* ------------------------------------------------------------------ bounds
MaxDate == 3      \* dates are 1..MaxDate
MaxStep == 3      \* a price or rate moves by at most MaxStep steps per date

\* ------------------------------------------------------------- rationals
NaN == <<0, 0>>
IsNaN(c) == c[2] = 0
Rat(n) == <<n, 1>>
Abs(n) == IF n < 0 THEN -n ELSE n

RECURSIVE Gcd(_, _)
Gcd(a, b) == IF b = 0 THEN a ELSE Gcd(b, a % b)

\* the same number in lowest terms (keeps the integers small)
Norm(c) ==
    IF IsNaN(c) THEN NaN
    ELSE LET g == Gcd(Abs(c[1]), c[2]) IN <<c[1] \div g, c[2] \div g>>

RatSub(a, b) ==
    IF IsNaN(a) \/ IsNaN(b) THEN NaN
    ELSE Norm(<<a[1] * b[2] - b[1] * a[2], a[2] * b[2]>>)

RatMul(a, b) ==
    IF IsNaN(a) \/ IsNaN(b) THEN NaN
    ELSE Norm(<<a[1] * b[1], a[2] * b[2]>>)

\* a / b for b > 0 (prices are positive)
RatDiv(a, b) ==
    IF IsNaN(a) \/ IsNaN(b) \/ b[1] <= 0 THEN NaN
    ELSE Norm(<<a[1] * b[2], a[2] * b[1]>>)

RatEq(a, b) == IsNaN(a) = IsNaN(b) /\ a[1] * b[2] = b[1] * a[2]

\* ---------------------------------------------------------------- tables
Range(s) == {s[i] : i \in 1..Len(s)}
PosOf(s, x) == CHOOSE i \in 1..Len(s) : s[i] = x
Frame(idx, cols, rows) == [index |-> idx, columns |-> cols, data |-> rows]

\* The table operators bind their argument once, as {... : df \in {frame}}, so
\* that a table built by a chain of operators is computed once per link.
Only(S) == CHOOSE x \in S : TRUE

TakeRows(frame, positions) ==
    Only({Frame([k \in 1..Len(pos) |-> df.index[pos[k]]], df.columns,
                [k \in 1..Len(pos) |-> df.data[pos[k]]]) :
            df \in {frame}, pos \in {positions}})

\* df / k, k * df and df ** 2, cell by cell
ScalarDiv(frame, k) ==
    Only({Frame(df.index, df.columns,
                [i \in 1..Len(df.index) |->
                    [j \in 1..Len(df.columns) |-> RatDiv(df.data[i][j], Rat(k))]]) :
            df \in {frame}})
ScalarMul(coef, frame) ==
    Only({Frame(df.index, df.columns,
                [i \in 1..Len(df.index) |->
                    [j \in 1..Len(df.columns) |-> RatMul(coef, df.data[i][j])]]) :
            df \in {frame}})
Square(frame) ==
    Only({Frame(df.index, df.columns,
                [i \in 1..Len(df.index) |->
                    [j \in 1..Len(df.columns) |-> RatMul(df.data[i][j], df.data[i][j])]]) :
            df \in {frame}})

\* pd.merge(left, right, how="inner", on="Date").index: the left keys, in the
\* left's order, that the right has too
merge_index(left, right) ==
    Only({SelectSeq(left.index, LAMBDA d : d \in keys) : keys \in {Range(right.index)}})

\* df.loc[labels]: the rows with these labels, in the labels' order
loc(frame, labels) ==
    Only({TakeRows(df, [k \in 1..Len(ls) |-> PosOf(df.index, ls[k])]) :
            df \in {frame}, ls \in {labels}})

sort_index_asc(frame) ==
    Only({TakeRows(df, SortSeq([i \in 1..Len(df.index) |-> i],
                               LAMBDA i, j : df.index[i] < df.index[j])) : df \in {frame}})
\* faulty variant of sort_index_desc: the final re-sort left out
sort_index_desc_skipped(frame) == frame
sort_index_desc(frame) ==
    Only({TakeRows(df, SortSeq([i \in 1..Len(df.index) |-> i],
                               LAMBDA i, j : df.index[i] > df.index[j])) : df \in {frame}})

\* DataFrame.diff(): row i minus row i-1; the first row has no predecessor
diff(frame) ==
    Only({Frame(df.index, df.columns,
                [i \in 1..Len(df.index) |-> [j \in 1..Len(df.columns) |->
                    IF i = 1 THEN NaN ELSE RatSub(df.data[i][j], df.data[i-1][j])]]) :
            df \in {frame}})

\* DataFrame.pct_change(): row i over row i-1, minus one
pct_change(frame) ==
    Only({Frame(df.index, df.columns,
                [i \in 1..Len(df.index) |-> [j \in 1..Len(df.columns) |->
                    IF i = 1 THEN NaN
                    ELSE RatSub(RatDiv(df.data[i][j], df.data[i-1][j]), Rat(1))]]) :
            df \in {frame}})

\* DataFrame.dropna(): drop every row holding a NaN
dropna(frame) ==
    Only({TakeRows(df, SelectSeq([i \in 1..Len(df.index) |-> i],
                                 LAMBDA i : \A j \in 1..Len(df.columns) :
                                               ~IsNaN(df.data[i][j]))) : df \in {frame}})

\* the outer union of two row indexes, in order of appearance
union_index(a, b) ==
    Only({x \o SelectSeq(y, LAMBDA e : e \notin Range(x)) : x \in {a}, y \in {b}})

\* df.reindex(idx): the rows of idx, NaN where df has no such row
reindex(frame, labels) ==
    Only({Frame(idx, df.columns,
                [i \in 1..Len(idx) |->
                    IF idx[i] \in Range(df.index) THEN df.data[PosOf(df.index, idx[i])]
                    ELSE [j \in 1..Len(df.columns) |-> NaN]]) :
            df \in {frame}, idx \in {labels}})

\* pd.concat([a, b], axis=1): columns side by side over the joined row index
concat_axis1(a, b) ==
    Only({Frame(ra.index, ra.columns \o rb.columns,
                [i \in 1..Len(ra.index) |-> ra.data[i] \o rb.data[i]]) :
            ra \in {reindex(a, union_index(a.index, b.index))},
            rb \in {reindex(b, union_index(a.index, b.index))}})

\* df[labels]: the columns with these labels, in the labels' order
select_columns(frame, labels) ==
    Only({Frame(df.index, ls,
                [i \in 1..Len(df.index) |->
                    [k \in 1..Len(ls) |-> df.data[i][PosOf(df.columns, ls[k])]]]) :
            df \in {frame}, ls \in {labels}})

\* df.loc[mask, labels]: the rows where mask (a flag per row) holds, the
\* columns of labels
loc_mask(frame, mask, labels) ==
    Only({select_columns(
              TakeRows(df, SelectSeq([i \in 1..Len(df.index) |-> i], LAMBDA i : m[i])),
              labels) : df \in {frame}, m \in {mask}})

\* ------------------------------------------------------------- load_data
required_files == <<"KeyRates.xlsx", "Assets.xlsx", "durations.xlsx", "convexity.xlsx">>

\* faulty variant of missing_files: reports every required file when any is absent
missing_files_all(exists) ==
    IF Range(required_files) \subseteq exists THEN <<>> ELSE required_files
\* [f for f in required_files if not os.path.exists(f)]
missing_files(exists) == SelectSeq(required_files, LAMBDA f : f \notin exists)

Raise(kind, files) == [ok |-> FALSE, error |-> [kind |-> kind, files |-> files]]
NoError == [kind |-> "none", files |-> <<>>]

\* faulty variant of kr_returns_of: relative change of the rate levels
kr_returns_relative(kr, dates) ==
    sort_index_desc(dropna(pct_change(sort_index_asc(loc(kr, dates)))))
\* kr.loc[dates, :].sort_index().diff().dropna(), then sorted newest first
kr_returns_of(kr, dates) ==
    sort_index_desc(dropna(diff(sort_index_asc(loc(kr, dates)))))

\* assets.loc[dates].sort_index().pct_change().dropna(), then sorted newest first
assets_returns_of(assets, dates) ==
    sort_index_desc(dropna(pct_change(sort_index_asc(loc(assets, dates)))))

\* pd.concat([-1.0 * durations, 0.5 * convexity], axis=1)
loadings_of(durations, convexity) ==
    concat_axis1(ScalarMul(<<-1, 1>>, durations), ScalarMul(<<1, 2>>, convexity))

\* faulty variant of target_returns_of: every priced asset kept
target_returns_unrestricted(assets_returns, loadings) == assets_returns
\* assets_returns[loadings.index]
target_returns_of(assets_returns, loadings) ==
    select_columns(assets_returns, loadings.index)

\* the body of load_data on the files of disk d: the returned tuple, or the
\* exception it raises
load_data(d) ==
    IF missing_files(d.exists) # <<>>
    THEN Raise("FileNotFoundError", missing_files(d.exists))
    ELSE IF d.corrupt # {}
    THEN Raise("ReadError", <<Head(SelectSeq(required_files, LAMBDA f : f \in d.corrupt))>>)
    ELSE Only({
      Only({
        Only({
          IF Len(X0.columns) # Len(loadings.columns)
          THEN Raise("ValueError", <<>>)          \* X.columns = loadings.columns
          ELSE IF ~(Range(loadings.index) \subseteq Range(assets_returns.columns))
          THEN Raise("KeyError", <<>>)            \* assets_returns[loadings.index]
          ELSE [ok |-> TRUE, error |-> NoError,
                kr_returns |-> kr_returns,
                assets_returns |-> assets_returns,
                durations |-> durations,
                convexity |-> convexity,
                loadings |-> loadings,
                X |-> Frame(X0.index, loadings.columns, X0.data),
                Y |-> target_returns_of(assets_returns, loadings)] :
          X0 \in {concat_axis1(kr_returns, Square(kr_returns))} }) :
        kr_returns \in {kr_returns_of(kr, dates)},
        assets_returns \in {assets_returns_of(assets, dates)},
        loadings \in {loadings_of(durations, convexity)} }) :
      kr \in {ScalarDiv(d.KeyRates, 100)},
      assets \in {d.Assets},
      durations \in {d.durations},
      convexity \in {d.convexity},
      dates \in {merge_index(d.Assets, d.KeyRates)} })

\* ------------------------------------------------- sidebar filter, Overview
Sections == {"Overview", "Data Explorer", "Analytics & Risk", "Charts & Visualization"}

Min(a, b) == IF a < b THEN a ELSE b
RECURSIVE SeqMin(_), SeqMax(_), SeqSum(_)
SeqMin(s) == IF Len(s) = 1 THEN s[1] ELSE Min(s[1], SeqMin(Tail(s)))
SeqMax(s) == IF Len(s) = 1 THEN s[1] ELSE -Min(-s[1], -SeqMax(Tail(s)))
SeqSum(s) == IF s = <<>> THEN 0 ELSE s[1] + SeqSum(Tail(s))

\* multiselect default: available_assets[:5]
default_assets(available) == SubSeq(available, 1, Min(5, Len(available)))

\* faulty variant of filter_Y: the window's end date excluded
filter_Y_open_end(Yt, range, selected) ==
    loc_mask(Yt, [i \in 1..Len(Yt.index) |->
                    Yt.index[i] >= range[1] /\ Yt.index[i] < range[2]], selected)
\* Y.loc[mask, selected_assets], mask = dates within date_range (inclusive)
filter_Y(Yt, range, selected) ==
    loc_mask(Yt, [i \in 1..Len(Yt.index) |->
                    Yt.index[i] >= range[1] /\ Yt.index[i] <= range[2]], selected)

\* floating-point statistics in fixed point, unit 1e-5; -1 is NaN
Fx(c) == (c[1] * 100000) \div c[2]
\* the integer square root of n, by bisection on lo..hi
RECURSIVE Bisect(_, _, _)
Bisect(n, lo, hi) ==
    IF lo >= hi THEN lo
    ELSE LET mid == (lo + hi + 1) \div 2
         IN IF mid * mid <= n THEN Bisect(n, mid, hi) ELSE Bisect(n, lo, mid - 1)
Isqrt(n) == Bisect(n, 0, 40000)

\* Series.std(): sample standard deviation (ddof = 1), NaN under two rows
std(xs) ==
    IF Len(xs) < 2 THEN -1
    ELSE LET mean == SeqSum(xs) \div Len(xs)
             sq == [i \in 1..Len(xs) |-> (xs[i] - mean) * (xs[i] - mean)]
         IN Isqrt(SeqSum(sq) \div (Len(xs) - 1))

\* filtered_Y.std().mean(): the mean of the columns' deviations, NaN ones skipped
avg_vol_of(fy) ==
    LET col(j) == [i \in 1..Len(fy.index) |-> Fx(fy.data[i][j])]
        stds == [j \in 1..Len(fy.columns) |-> std(col(j))]
        have == SelectSeq(stds, LAMBDA v : v >= 0)
    IN IF have = <<>> THEN -1 ELSE SeqSum(have) \div Len(have)

\* "Medium" if avg_vol < 0.02 else "High" if avg_vol > 0.05 else "Low"
\* (every comparison with NaN is false)
risk_level_of(v) ==
    IF v >= 0 /\ v < 2000 THEN "Medium"
    ELSE IF v >= 0 /\ v > 5000 THEN "High"
    ELSE "Low"

\* ----------------------------------------------------------------- state
VARIABLES
    disk,             \* the four spreadsheet files: which exist, which parse, contents
    cache,            \* st.cache_data's memo of load_data's return value
    section,          \* the navigation radio's value
    selected_assets,  \* the multiselect's value
    date_range,       \* the slider's value <<start, end>>
    widgets,          \* the sidebar widgets the last run rendered
    outcome,          \* "init" | "ok" | "stopped" (st.stop) | "crashed" (uncaught)
    first_run,        \* was the last run the first of its session
    loaded,           \* did the last run execute load_data's body
    messages,         \* the st.error messages of the last run
    tables,           \* the tuple unpacked from load_data() in the last run
    filtered_Y,       \* the last run's filtered view of Y
    view,             \* the section view the last run rendered, or "none"
    avg_vol,          \* Overview: filtered_Y.std().mean()
    risk_level        \* Overview: the Risk Level label

vars == <<disk, cache, section, selected_assets, date_range, widgets, outcome,
          first_run, loaded, messages, tables, filtered_Y, view, avg_vol, risk_level>>

NoTables == [ok |-> FALSE]
NoFrame == Frame(<<>>, <<>>, <<>>)
NoRange == <<0, 0>>

\* the multiselect's list and the slider's bounds as the script computes them
available_assets(t) == t.Y.columns
min_date(t) == SeqMin(t.Y.index)
max_date(t) == SeqMax(t.Y.index)

\* faulty variant of cached_load_data: the body runs even when a memo exists
cached_load_data_memo_ignored(c, d) ==
    Only({[result |-> r, ran |-> TRUE, memo |-> IF r.ok THEN r ELSE c] :
             r \in {load_data(d)}})
\* variant of cached_load_data that memoises a raised exception as well
cached_load_data_memo_of_failure(c, d) ==
    IF c # [ok |-> FALSE] THEN [result |-> c, ran |-> FALSE, memo |-> c]
    ELSE Only({[result |-> r, ran |-> TRUE, memo |-> r] : r \in {load_data(d)}})
\* st.cache_data around load_data: the memo if there is one, else the body,
\* whose return value is memoised (an exception is not)
cached_load_data(c, d) ==
    IF c.ok THEN [result |-> c, ran |-> FALSE, memo |-> c]
    ELSE Only({[result |-> r, ran |-> TRUE, memo |-> IF r.ok THEN r ELSE c] :
                  r \in {load_data(d)}})

\* the st.error calls of a failed run: load_data's own, then the call site's
error_messages(e) ==
    (IF e.kind = "FileNotFoundError"
       THEN <<[at |-> "load_data", text |-> "Missing files", files |-> e.files]>>
     ELSE IF e.kind = "ReadError"
       THEN <<[at |-> "load_data", text |-> "Error reading Excel files", files |-> e.files]>>
     ELSE <<>>)
    \o <<[at |-> "init", text |-> "App initialization failed", files |-> e.files]>>

\* One run of the script, top to bottom, with the radio at sec; the multiselect
\* and the slider hold selVal / rngVal when hasSel / hasRng, else their defaults.
Script(sec, hasSel, selVal, hasRng, rngVal) ==
    \E call \in {cached_load_data(cache, disk)} : \E t \in {call.result} :
       /\ section' = sec
       /\ cache' = call.memo
       /\ loaded' = call.ran
       /\ UNCHANGED disk
       /\ IF ~t.ok
          THEN \* lines 60-65: report and st.stop()
               /\ outcome' = "stopped"
               /\ messages' = error_messages(t.error)
               /\ widgets' = {"section"}
               /\ tables' = NoTables
               /\ selected_assets' = <<>>
               /\ date_range' = NoRange
               /\ filtered_Y' = NoFrame
               /\ view' = "none"
               /\ avg_vol' = -1
               /\ risk_level' = "none"
          ELSE \E sel \in {IF hasSel THEN selVal ELSE default_assets(available_assets(t))} :
                  /\ tables' = t
                  /\ messages' = <<>>
                  /\ selected_assets' = sel
                  /\ IF t.Y.index = <<>>
                     THEN \* line 75: min() of an empty array raises, uncaught
                          /\ outcome' = "crashed"
                          /\ widgets' = {"section", "assets"}
                          /\ date_range' = NoRange
                          /\ filtered_Y' = NoFrame
                          /\ view' = "none"
                          /\ avg_vol' = -1
                          /\ risk_level' = "none"
                     ELSE \E rng \in {IF hasRng THEN rngVal
                                        ELSE <<min_date(t), max_date(t)>>} :
                          \E fy \in {filter_Y(t.Y, rng, sel)} :
                          \E vol \in {IF sec = "Overview" THEN avg_vol_of(fy) ELSE -1} :
                             /\ outcome' = "ok"
                             /\ widgets' = {"section", "assets", "dates"}
                             /\ date_range' = rng
                             /\ filtered_Y' = fy
                             /\ view' = sec
                             /\ avg_vol' = vol
                             /\ risk_level' = IF sec = "Overview"
                                              THEN risk_level_of(vol)
                                              ELSE "none"

\* sequences over S without repetition
NoDupSeqs(S) ==
    {s \in UNION {[1..n -> S] : n \in 0..Cardinality(S)} :
        \A i, j \in 1..Len(s) : i # j => s[i] # s[j]}

\* a run within the session: the widgets hold what the last run left in them
Rerun(sec) ==
    /\ first_run' = FALSE
    /\ Script(sec, "assets" \in widgets, selected_assets, "dates" \in widgets, date_range)

\* a browser opens (or reloads) the app: a new session of the same process,
\* its first run, every widget at its default
StartSession ==
    /\ first_run' = TRUE
    /\ Script("Overview", FALSE, <<>>, FALSE, NoRange)

\* the user picks another section
ChangeSection ==
    /\ outcome # "init"
    /\ \E s \in Sections \ {section} : Rerun(s)

\* the user changes the asset selection
ChangeAssets ==
    /\ "assets" \in widgets
    /\ first_run' = FALSE
    /\ \E sel \in NoDupSeqs(Range(available_assets(tables))) \ {selected_assets} :
          Script(section, TRUE, sel, "dates" \in widgets, date_range)

\* the user moves the date slider
ChangeDateRange ==
    /\ "dates" \in widgets
    /\ first_run' = FALSE
    /\ \E lo, hi \in min_date(tables)..max_date(tables) :
          /\ lo <= hi
          /\ <<lo, hi>> # date_range
          /\ Script(section, TRUE, selected_assets, TRUE, <<lo, hi>>)

\* the user reruns the script with the widgets as they are
Refresh ==
    /\ outcome # "init"
    /\ Rerun(section)

Next == StartSession \/ ChangeSection \/ ChangeAssets \/ ChangeDateRange \/ Refresh

\* ------------------------------------------------------- the files on disk
Tenors == <<"2Y", "10Y">>
AssetIds == <<"BondA", "BondB">>
LoadingIds == {"BondA", "BondB", "BondZ"}      \* BondZ has no price series
Dates == 1..MaxDate
StoredDates == [i \in 1..MaxDate |-> IF i = MaxDate THEN 1 ELSE i + 1]   \* rows out of order

\* a series that starts at base and moves by delta[k] * unit from date k to k+1
RECURSIVE PathAt(_, _, _, _)
PathAt(base, unit, delta, d) ==
    IF d = 1 THEN base ELSE PathAt(base, unit, delta, d - 1) + unit * delta[d - 1]
Path(base, unit, delta) == [d \in Dates |-> PathAt(base, unit, delta, d)]
Deltas == [1..(MaxDate - 1) -> (-MaxStep)..MaxStep]

\* reference series: 2Y rate in hundredths of a percentage point, BondA price
BaseRate == [d \in Dates |-> 200 + 10 * (d % 3)]
BasePrice == [d \in Dates |-> 100 + d]

\* KeyRates.xlsx: percentage points per date and tenor
KeyRatesFile(idx, rate2Y) ==
    Frame(idx, Tenors,
          [i \in 1..Len(idx) |-> <<Norm(<<rate2Y[idx[i]], 100>>),
                                   Norm(<<300 - 5 * idx[i], 100>>)>>])

\* Assets.xlsx: a price per date and asset
AssetsFile(idx, priceA) ==
    Frame(idx, AssetIds,
          [i \in 1..Len(idx) |-> <<Rat(priceA[idx[i]]), Rat(100 + 4 * (idx[i] % 2))>>])

Ord(a) == IF a = "BondA" THEN 1 ELSE IF a = "BondB" THEN 2 ELSE 3

\* durations.xlsx, convexity.xlsx: a sensitivity per asset and tenor
DurationsFile(idx, cols) ==
    Frame(idx, cols,
          [i \in 1..Len(idx) |-> [j \in 1..Len(cols) |-> Norm(<<10 * Ord(idx[i]) + 3 * j, 10>>)]])
ConvexityFile(idx, cols) ==
    Frame(idx, cols,
          [i \in 1..Len(idx) |-> [j \in 1..Len(cols) |-> Rat(7 * Ord(idx[i]) + 2 * j)]])

TenorLists == {<<"2Y">>, <<"2Y", "10Y">>, <<"2Y", "5Y", "10Y">>}

Disk(ex, bad, kr, assets, dur, conv) ==
    [exists |-> ex, corrupt |-> bad, KeyRates |-> kr, Assets |-> assets,
     durations |-> dur, convexity |-> conv]

BaseKeyRates == KeyRatesFile(StoredDates, BaseRate)
BaseAssets == AssetsFile(StoredDates, BasePrice)
BaseDurations == DurationsFile(AssetIds, Tenors)
BaseConvexity == ConvexityFile(AssetIds, Tenors)
AllFiles == Range(required_files)

\* The disks a session may start on.  Each family varies one aspect of the
\* files and keeps the rest at the reference contents.
Disks ==
    \* which files exist, and which of those do not parse
    {Disk(ex, bad, BaseKeyRates, BaseAssets, BaseDurations, BaseConvexity) :
        ex \in SUBSET AllFiles, bad \in SUBSET AllFiles} 
    \cup
    \* the dates each time series has, in any row order
    {Disk(AllFiles, {}, KeyRatesFile(k, BaseRate), BaseAssets, BaseDurations, BaseConvexity) :
        k \in NoDupSeqs(Dates)}
    \cup
    {Disk(AllFiles, {}, BaseKeyRates, AssetsFile(a, BasePrice), BaseDurations, BaseConvexity) :
        a \in NoDupSeqs(Dates)}
    \cup
    \* the 2Y rate levels (steps of 0.05 points from 2.00) and BondA's prices
    \* (steps of 1 from 100)
    {Disk(AllFiles, {},
          KeyRatesFile(StoredDates, Path(200, 5, dl)),
          AssetsFile(StoredDates, Path(100, 1, dl)),
          BaseDurations, BaseConvexity) : dl \in Deltas}
    \cup
    \* the assets the two sensitivity tables have rows for, in any row order
    {Disk(AllFiles, {}, BaseKeyRates, BaseAssets,
          DurationsFile(di, Tenors), ConvexityFile(ci, Tenors)) :
        di \in NoDupSeqs(LoadingIds), ci \in NoDupSeqs(LoadingIds)}
    \cup
    \* the tenor columns the two sensitivity tables have
    {Disk(AllFiles, {}, BaseKeyRates, BaseAssets,
          DurationsFile(AssetIds, dc), ConvexityFile(AssetIds, cc)) :
        dc \in TenorLists, cc \in TenorLists}

Init ==
    /\ disk \in {d \in Disks : d.corrupt \subseteq d.exists}
    /\ cache = NoTables
    /\ section = "Overview"
    /\ selected_assets = <<>>
    /\ date_range = NoRange
    /\ widgets = {}
    /\ outcome = "init"
    /\ first_run = FALSE
    /\ loaded = FALSE
    /\ messages = <<>>
    /\ tables = NoTables
    /\ filtered_Y = NoFrame
    /\ view = "none"
    /\ avg_vol = -1
    /\ risk_level = "none"

Spec == Init /\ [][Next]_vars

\* ------------------------------------------------------ reading the state
CellAt(df, row, j) == df.data[PosOf(df.index, row)][j]
CellOf(df, row, col) == df.data[PosOf(df.index, row)][PosOf(df.columns, col)]
IsStrictlyDecreasing(s) == \A i \in 1..(Len(s) - 1) : s[i] > s[i + 1]
NoRepeat(s) == \A i, j \in 1..Len(s) : i # j => s[i] # s[j]

MissingSet == AllFiles \ disk.exists
CommonDates == Range(disk.Assets.index) \cap Range(disk.KeyRates.index)
Earliest ==
    IF CommonDates = {} THEN 0
    ELSE CHOOSE d \in CommonDates : \A e \in CommonDates : d <= e
PrevCommon(d) ==
    CHOOSE p \in CommonDates : p < d /\ \A e \in CommonDates : e < d => e <= p
Started == outcome # "init"
Rank(label) == IF label = "Low" THEN 1 ELSE IF label = "Medium" THEN 2 ELSE 3

\* ------------------------------------------------------------------ claims

\* C1: whenever some required files are absent, the run reports exactly the
\* absent files (each once, no other file), load_data hands back no table, whole
\* or partial, nothing is memoised, and the run halts with no section view.
MissingFilesHalt ==
    (Started /\ MissingSet # {}) =>
        /\ outcome = "stopped"
        /\ loaded
        /\ Len(messages) = 2
        /\ messages[1].at = "load_data" /\ messages[1].text = "Missing files"
        /\ \A k \in 1..2 : Range(messages[k].files) = MissingSet /\ NoRepeat(messages[k].files)
        /\ tables = NoTables /\ cache = NoTables
        /\ filtered_Y = NoFrame
        /\ view = "none"
MissingFilesHaltWitness ==
    /\ outcome = "stopped"
    /\ MissingSet = {"Assets.xlsx", "convexity.xlsx"}
    /\ messages[1].files = <<"Assets.xlsx", "convexity.xlsx">>
    /\ section = "Data Explorer"

\* C2: over the common dates in ascending order, every date after the first has
\* a RateReturns row equal to the level change of raw/100 since the previous
\* common date, and an AssetReturns row equal to the price change since the
\* previous common date divided by the price at that date; levels 2.00, 2.10,
\* 1.95 give 0.0010 and -0.0015, prices 100, 102, 99 give 2/100 and -3/102.
DifferencingPolicy ==
    tables.ok =>
        /\ \A d \in CommonDates \ {Earliest} :
              /\ d \in Range(tables.kr_returns.index)
              /\ d \in Range(tables.assets_returns.index)
              /\ \A j \in 1..Len(disk.KeyRates.columns) :
                    LET cur == CellAt(disk.KeyRates, d, j)
                        prev == CellAt(disk.KeyRates, PrevCommon(d), j)
                        got == CellAt(tables.kr_returns, d, j)
                    IN /\ got[2] > 0
                       /\ got[1] * (100 * cur[2] * prev[2])
                            = (cur[1] * prev[2] - prev[1] * cur[2]) * got[2]
              /\ \A j \in 1..Len(disk.Assets.columns) :
                    LET cur == CellAt(disk.Assets, d, j)[1]
                        prev == CellAt(disk.Assets, PrevCommon(d), j)[1]
                        got == CellAt(tables.assets_returns, d, j)
                    IN /\ got[2] > 0
                       /\ got[1] * prev = (cur - prev) * got[2]
        /\ ({1, 2, 3} \subseteq CommonDates
               /\ CellAt(disk.KeyRates, 1, 1) = <<2, 1>>
               /\ CellAt(disk.KeyRates, 2, 1) = <<21, 10>>
               /\ CellAt(disk.KeyRates, 3, 1) = <<39, 20>>)
            => /\ RatEq(CellAt(tables.kr_returns, 2, 1), <<10, 10000>>)
               /\ RatEq(CellAt(tables.kr_returns, 3, 1), <<-15, 10000>>)
        /\ ({1, 2, 3} \subseteq CommonDates
               /\ CellAt(disk.Assets, 1, 1) = <<100, 1>>
               /\ CellAt(disk.Assets, 2, 1) = <<102, 1>>
               /\ CellAt(disk.Assets, 3, 1) = <<99, 1>>)
            => /\ RatEq(CellAt(tables.assets_returns, 2, 1), <<2, 100>>)
               /\ RatEq(CellAt(tables.assets_returns, 3, 1), <<-3, 102>>)
\* the rate table has a row the price table lacks, between two common dates
DifferencingPolicyWitness ==
    /\ tables.ok
    /\ 2 \in Range(disk.KeyRates.index) \ Range(disk.Assets.index)
    /\ {1, 3} \subseteq CommonDates
    /\ 3 \in Range(tables.kr_returns.index)
    /\ disk.Assets.index = <<3, 1>>

\* C3: Loadings has 2 x (number of tenors) columns; in every row the duration
\* half is -1 x the asset's durations and the convexity half is 1/2 x the
\* asset's convexities, and Loadings holds no other value.
LoadingsAreScaledSensitivities ==
    tables.ok =>
        /\ Len(tables.loadings.columns) = 2 * Len(disk.KeyRates.columns)
        /\ \A i \in 1..Len(tables.loadings.index) :
              LET a == tables.loadings.index[i]
                  nd == Len(disk.durations.columns)
              IN /\ a \in Range(disk.durations.index)
                 /\ a \in Range(disk.convexity.index)
                 /\ \A j \in 1..nd :
                       RatEq(tables.loadings.data[i][j],
                             RatMul(<<-1, 1>>, CellAt(disk.durations, a, j)))
                 /\ \A j \in 1..Len(disk.convexity.columns) :
                       RatEq(tables.loadings.data[i][nd + j],
                             RatMul(<<1, 2>>, CellAt(disk.convexity, a, j)))

\* What the code does (for C3 and C8): Loadings has a row for every asset of
\* either table; a half is the scaled sensitivities where the asset has a row
\* in that table and NaN where it has none.
LoadingsOverUnion ==
    tables.ok =>
        /\ Range(tables.loadings.index)
              = Range(disk.durations.index) \cup Range(disk.convexity.index)
        /\ \A i \in 1..Len(tables.loadings.index) :
              LET a == tables.loadings.index[i]
                  nd == Len(disk.durations.columns)
              IN /\ \A j \in 1..nd :
                       IF a \in Range(disk.durations.index)
                       THEN RatEq(tables.loadings.data[i][j],
                                  RatMul(<<-1, 1>>, CellAt(disk.durations, a, j)))
                       ELSE IsNaN(tables.loadings.data[i][j])
                 /\ \A j \in 1..Len(disk.convexity.columns) :
                       IF a \in Range(disk.convexity.index)
                       THEN RatEq(tables.loadings.data[i][nd + j],
                                  RatMul(<<1, 2>>, CellAt(disk.convexity, a, j)))
                       ELSE IsNaN(tables.loadings.data[i][nd + j])

\* C4: the date indexes of RateReturns and AssetReturns are strictly
\* decreasing, hold only dates both sources have, and lack the earliest
\* common date.
ReturnIndexesNewestFirst ==
    tables.ok =>
        \A idx \in {tables.kr_returns.index, tables.assets_returns.index} :
            /\ IsStrictlyDecreasing(idx)
            /\ Range(idx) \subseteq CommonDates
            /\ Earliest \notin Range(idx)
\* both sources stored out of order, in different orders
ReturnIndexesNewestFirstWitness ==
    /\ tables.ok
    /\ Len(tables.kr_returns.index) >= 2
    /\ Len(tables.assets_returns.index) >= 2
    /\ disk.KeyRates.index = <<1, 3, 2>>
    /\ ~IsStrictlyDecreasing(disk.Assets.index)
    /\ disk.Assets.index # disk.KeyRates.index

\* C5: FilteredReturns holds exactly the rows of TargetReturns dated within the
\* window and exactly the selected columns, cells unchanged; it is produced for
\* every selection and window (an empty selection gives an empty table, the run
\* still renders); the full selection over the full range is TargetReturns.
FilterIsProjection ==
    (tables.ok /\ tables.Y.index # <<>>) =>
        /\ outcome = "ok" /\ view = section
        /\ filtered_Y.columns = selected_assets
        /\ filtered_Y.index =
              SelectSeq(tables.Y.index, LAMBDA d : date_range[1] <= d /\ d <= date_range[2])
        /\ Len(filtered_Y.data) = Len(filtered_Y.index)
        /\ \A i \in 1..Len(filtered_Y.index) :
              /\ Len(filtered_Y.data[i]) = Len(selected_assets)
              /\ \A k \in 1..Len(selected_assets) :
                    filtered_Y.data[i][k]
                       = CellOf(tables.Y, filtered_Y.index[i], selected_assets[k])
        /\ (selected_assets = tables.Y.columns
               /\ date_range = <<min_date(tables), max_date(tables)>>)
            => filtered_Y = tables.Y
\* a proper window and a proper, reordered selection
FilterIsProjectionWitness ==
    /\ outcome = "ok"
    /\ Len(tables.Y.columns) = 2
    /\ selected_assets = <<tables.Y.columns[2]>>
    /\ Len(filtered_Y.index) = 1
    /\ Len(tables.Y.index) = 2
    /\ filtered_Y.data = <<<<tables.Y.data[2][2]>>>>

\* C6: once a run has obtained the tables, no later run executes load_data's
\* body, the memo does not change, and every later run sees the same tables,
\* whatever the interaction and whatever FilteredReturns becomes.
LoadedOnce ==
    [][tables.ok => /\ ~loaded'
                    /\ cache' = cache
                    /\ cache = tables
                    /\ tables' = tables]_vars
LoadedOnceWitness ==
    /\ tables.ok /\ ~loaded /\ ~first_run
    /\ view = "Analytics & Risk"
    /\ selected_assets = <<>>
    /\ date_range[1] = date_range[2]

\* C7 as stated: after a failed load no later run of the same session executes
\* load_data's body, and none renders a view.
NoRetryAfterFailure ==
    [][(outcome = "stopped" /\ ~first_run') => (~loaded' /\ view' = "none")]_vars

\* C7 amended: a failed load is not memoised; every later run of the session
\* executes load_data's body again and, the files being as they were, fails
\* with the same report and renders no view.
FailureRepeatsEveryRun ==
    [][(outcome = "stopped" /\ ~first_run') =>
                              /\ loaded'
                              /\ outcome' = "stopped"
                              /\ messages' = messages
                              /\ view' = "none"
                              /\ cache' = NoTables /\ tables' = NoTables]_vars
FailureRepeatsEveryRunWitness ==
    /\ outcome = "stopped" /\ loaded /\ ~first_run
    /\ section = "Charts & Visualization"
    /\ messages[1].text = "Error reading Excel files"

\* C8: the rows of Loadings are the assets that both DurationMatrix and
\* ConvexityMatrix have.
LoadingsRowsAreIntersection ==
    tables.ok =>
        Range(tables.loadings.index)
           = Range(disk.durations.index) \cap Range(disk.convexity.index)

\* C9: whenever load_data returns, TargetReturns' columns lie within Loadings'
\* rows and within the price table's assets, each has a duration row or a
\* convexity row, and TargetReturns is AssetReturns cut down to Loadings'
\* assets: the same rows, the same cells.
TargetReturnsRestricted ==
    tables.ok =>
        /\ Range(tables.Y.columns)
              \subseteq (Range(tables.loadings.index) \cap Range(disk.Assets.columns))
        /\ \A a \in Range(tables.Y.columns) :
              a \in Range(disk.durations.index) \cup Range(disk.convexity.index)
        /\ Range(tables.Y.columns)
              = Range(tables.assets_returns.columns) \cap Range(tables.loadings.index)
        /\ NoRepeat(tables.Y.columns)
        /\ tables.Y.index = tables.assets_returns.index
        /\ \A d \in Range(tables.Y.index) : \A a \in Range(tables.Y.columns) :
              CellOf(tables.Y, d, a) = CellOf(tables.assets_returns, d, a)
\* a priced asset without sensitivities is left out
TargetReturnsRestrictedWitness ==
    /\ tables.ok
    /\ tables.Y.columns = <<"BondB">>
    /\ tables.assets_returns.columns = <<"BondA", "BondB">>
    /\ Len(tables.Y.index) = 2

\* C10: of two Overview renderings, the one with the lower average volatility
\* never carries the higher risk level (Low < Medium < High), and every
\* rendering carries one of the three levels.
RiskLevelOrdered ==
    [][(view = "Overview" /\ view' = "Overview") =>
          /\ risk_level' \in {"Low", "Medium", "High"}
          /\ (avg_vol >= 0 /\ avg_vol' >= 0 /\ avg_vol <= avg_vol')
                => Rank(risk_level) <= Rank(risk_level')]_vars

=============================================================================
